---- MODULE Spec2Model ----
(***************************************************************************)
(* Model of services/python-raw/service.py: a versioned HTTP front end     *)
(* (RequestHandler.handle_one_request) over an in-memory message store     *)
(* (Store), with cursor pagination (Store.list / MessageHandlers.list).    *)
(*                                                                         *)
(* Each worker is one connection thread of ThreadingHTTPServer.  A worker  *)
(* runs the dispatcher up to the handler in one step (it only touches      *)
(* thread-local data and the read-only tables) and then runs the handler   *)
(* step by step where it touches the shared store.                         *)
(***************************************************************************)
EXTENDS Integers, Sequences, FiniteSets, TLC

VARIABLES
    heap,        \* the Message objects ever constructed, by allocation order
    data,        \* Store._data: id -> reference (index into heap)
    next_id,     \* Store._next_id
    lock,        \* Store._lock: 0 when free, else the worker holding it
    clock,       \* the system clock read by time.time_ns()
    router,      \* the version table built by main()
    deprecation, \* the deprecation table built by main()
    pc,          \* each worker's position
    req,         \* each worker's current request
    loc,         \* each worker's local variables
    resp,        \* each worker's response (what _respond sent)
    issued,      \* observation: ids assigned by Store.create, in lock order
    deleted,     \* observation: ids whose Store.delete returned True
    walk         \* the client following cursors, or the caller of Store.list

vars == <<heap, data, next_id, lock, clock, router, deprecation,
          pc, req, loc, resp, issued, deleted, walk>>

storeVars == <<heap, data, next_id>>

-----------------------------------------------------------------------------
(* Bounds of the model. *)

MaxCreate == 2       \* creates accepted in one behaviour
MaxClock == 1        \* the clock takes values 0..MaxClock
MaxWalkN == 25       \* the walk's stores hold ids 0..N-1 for N <= MaxWalkN
MaxGapId == 10       \* the page specification's stores are subsets of 0..MaxGapId

(* Program constants. *)

PageLimit == 10      \* MessageHandlers.list: limit = 10
AfterWindow == 11    \* Store.list: data[index + 1:min(len(data), index + 11)]
Month == 2592000     \* main: 60*60*24*30

(* The connection threads: two, so that any two operations can overlap. *)
Workers == {1, 2}

None == -1           \* Python None where the other values are ids or versions
NoneStr == "<None>"  \* Python None where the other values are strings

-----------------------------------------------------------------------------
(* Text tokens.  A token is a sequence of characters; the characters are    *)
(* the digits 0..9, Minus and Letter (any character that is neither).      *)

Minus == 10
Letter == 11

Digits == 0..9

RECURSIVE Dec(_)
(* str(n) for n >= 0, as the client formats a cursor. *)
Dec(n) == IF n < 10 THEN <<n>> ELSE Dec(n \div 10) \o <<n % 10>>

Str(n) == IF n < 0 THEN <<Minus>> \o Dec(-n) ELSE Dec(n)

IsDigits(tok) == Len(tok) > 0 /\ \A i \in 1..Len(tok) : tok[i] \in Digits

RECURSIVE DigitsValue(_)
DigitsValue(tok) ==
    IF Len(tok) = 0 THEN 0
    ELSE 10 * DigitsValue(SubSeq(tok, 1, Len(tok) - 1)) + tok[Len(tok)]

(* int(tok): [ok, val]; ok = FALSE is ValueError. *)
ParseInt(tok) ==
    IF IsDigits(tok) THEN [ok |-> TRUE, val |-> DigitsValue(tok)]
    ELSE IF Len(tok) > 1 /\ tok[1] = Minus /\ IsDigits(Tail(tok))
         THEN [ok |-> TRUE, val |-> 0 - DigitsValue(Tail(tok))]
         ELSE [ok |-> FALSE, val |-> 0]

-----------------------------------------------------------------------------
(* Small helpers. *)

Max2(a, b) == IF a > b THEN a ELSE b
Min2(a, b) == IF a < b THEN a ELSE b

(* data[lo:hi] of Python, on a 1-based sequence: positions lo+1..hi. *)
Slice(s, lo, hi) == SubSeq(s, lo + 1, Min2(hi, Len(s)))

(* sorted(self._data.values(), key = lambda message: message.id): the       *)
(* references R in ascending order of the id field of their objects.       *)
SortRefs(h, R) ==
    [i \in 1..Cardinality(R) |->
        CHOOSE x \in R : Cardinality({y \in R : h[y].id < h[x].id}) = i - 1]

-----------------------------------------------------------------------------
(* Message and Store: the pure parts. *)

NoMsg == [id |-> None, author |-> NoneStr, content |-> NoneStr,
          created |-> 0, updated |-> 0]

(* Message.create(id, author, content) at clock value now. *)
MessageCreate(id, author, content, now) ==
    [id |-> id, author |-> author, content |-> content,
     created |-> now, updated |-> now]

(* Store.list: if value.id >= start: break *)
LandsStrict(id, start) == id > start
Lands(id, start) == id >= start

(* The window Store.list takes after the landing record. *)
AfterSliceShort(s, index) ==
    Slice(s, index + 1, Min2(Len(s), index + PageLimit))
AfterSlice(s, index) == Slice(s, index + 1, Min2(Len(s), index + AfterWindow))

(* The window Store.list takes before the landing record. *)
BeforeSliceLanding(s, index, limit) ==
    Slice(s, Max2(0, index - limit), index + 1)
BeforeSlice(s, index, limit) == Slice(s, Max2(0, index - limit), index)

(* The values of dict d: the references it holds. *)
Values(d) == {d[k] : k \in DOMAIN d}

(* Store.list(start, limit) on heap h, with s the sorted snapshot `data`:  *)
(* references, None for no current.  index is the 0-based position of the  *)
(* first id >= start.                                                      *)
StoreList(h, s, start, limit) ==
    LET hits == {i \in 1..Len(s) : Lands(h[s[i]].id, start)}
        empty == [before |-> <<>>, current |-> None, after |-> <<>>]
    IN IF Len(s) = 0 THEN empty
       ELSE IF hits = {} THEN empty
       ELSE LET index == (CHOOSE i \in hits : \A j \in hits : i <= j) - 1
            IN [before |-> BeforeSlice(s, index, limit),
                current |-> s[index + 1],
                after |-> AfterSlice(s, index)]

NoPage == [data |-> <<>>, next |-> None, previous |-> None]

IdsOf(h, refs) == [i \in 1..Len(refs) |-> h[refs[i]].id]

(* The `next` member MessageHandlers.list computes from `after`. *)
NextCursorInPage(h, after, limit) ==
    IF Len(after) = limit THEN h[after[limit - 1]].id ELSE None
NextCursor(h, after, limit) ==
    IF Len(after) = limit THEN h[after[limit]].id ELSE None

(* MessageHandlers.list after start is parsed: the body's data (the ids of *)
(* the records, in order), next and previous.                              *)
ListPage(h, s, start) ==
    LET limit == PageLimit
        l == StoreList(h, s, start, limit)
        previous == IF Len(l.before) > 0 THEN h[l.before[1]].id ELSE None
    IN IF l.current = None
       THEN [data |-> <<>>, next |-> None, previous |-> previous]
       ELSE [data |-> <<h[l.current].id>> \o
                      (IF Len(l.after) > 0
                       THEN IdsOf(h, Slice(l.after, 0, limit - 1))
                       ELSE <<>>),
             next |-> NextCursor(h, l.after, limit),
             previous |-> previous]

-----------------------------------------------------------------------------
(* The tables main() builds. *)

(* HTTPMethod: the members of the standard enumeration. *)
KnownMethods == {"CONNECT", "DELETE", "GET", "HEAD", "OPTIONS", "PATCH",
                 "POST", "PUT", "TRACE"}

Route(pattern, handler) == [pattern |-> pattern, handler |-> handler]

RetiredRoutes == <<Route(".*", "gone")>>

(* The routes of versions 1 and 2, each method's in insertion order. *)
MessageRoutes ==
    [m \in {"GET", "POST", "PUT", "PATCH", "DELETE"} |->
        CASE m = "GET" -> <<Route("/?", "status"),
                            Route("/message/(?P<id>\\d+)/?", "get"),
                            Route("/message/?", "list")>>
          [] m = "POST" -> <<Route("/message/?", "create")>>
          [] m = "PUT" -> <<Route("/message/(?P<id>\\d+)/?", "put")>>
          [] m = "PATCH" -> <<Route("/message/(?P<id>\\d+)/?", "patch")>>
          [] m = "DELETE" -> <<Route("/message/(?P<id>\\d+)/?", "delete")>>]

RouterTable ==
    [v \in {0, 1, 2} |->
        IF v = 0
        THEN [m \in {"GET", "POST", "PUT", "PATCH", "DELETE"} |-> RetiredRoutes]
        ELSE MessageRoutes]

(* deprecation[VERSION] = (DEPRECATION_TIME, SUNSET_TIME), with the start  *)
(* of the process as time 0.                                               *)
DeprecationTable ==
    [v \in {0, 1} |-> IF v = 0 THEN <<0 - Month, 0>> ELSE <<0, Month>>]

-----------------------------------------------------------------------------
(* Requests.                                                               *)
(*   line:   "ok", "toolong" (over 65536 bytes) or "unparsable"            *)
(*   accept: the Accept header: whether present, whether it has a version  *)
(*           parameter, and the parameter's value                          *)
(*   method: the request line's command                                    *)
(*   path:   seg is "" for /, else the first segment; sub is the second    *)
(*           segment (empty when there is none)                            *)
(*   query:  whether start is given, and its value                         *)
(*   body:   kind "none" (Content-Length absent or 0), "malformed" (not    *)
(*           JSON), "null" (JSON null), "nonobject" (JSON, not an object)  *)
(*           or "object" with members author and content (NoneStr when     *)
(*           absent or null)                                               *)

Accept(present, param, value) ==
    [present |-> present, param |-> param, value |-> value]
NoAccept == Accept(FALSE, FALSE, <<>>)
AcceptVersion(v) == Accept(TRUE, TRUE, Str(v))

Path(seg, sub) == [seg |-> seg, sub |-> sub]
RootPath == Path("", <<>>)
CollectionPath == Path("message", <<>>)
ItemPath(id) == Path("message", Str(id))

Query(has, start) == [hasStart |-> has, start |-> start]
NoQuery == Query(FALSE, <<>>)

Body(kind, author, content) ==
    [kind |-> kind, author |-> author, content |-> content]
NoBody == Body("none", NoneStr, NoneStr)
ObjectBody(author, content) == Body("object", author, content)

Request(line, accept, method, path, query, body) ==
    [line |-> line, accept |-> accept, method |-> method, path |-> path,
     query |-> query, body |-> body]

NoRequest == Request("ok", NoAccept, "GET", RootPath, NoQuery, NoBody)

-----------------------------------------------------------------------------
(* The dispatcher's pure steps. *)

(* int(re.search(r"(?:^|[,;])\s*version\s*=\s*([^,; ]+)\s*", Accept)       *)
(* .group(1).strip()) under suppress(Exception): None when the header is   *)
(* missing, has no version parameter, or the value is not an integer.      *)
ExtractVersionDefault(accept) ==
    IF ~accept.present THEN 1
    ELSE IF ~accept.param THEN None
    ELSE IF ~ParseInt(accept.value).ok THEN None
    ELSE ParseInt(accept.value).val

ExtractVersion(accept) ==
    IF ~accept.present THEN None
    ELSE IF ~accept.param THEN None
    ELSE IF ~ParseInt(accept.value).ok THEN None
    ELSE ParseInt(accept.value).val

(* request_version is None or request_version not in self.router *)
VersionIsNone(rt, version) == version = None
VersionRejected(rt, version) == version = None \/ version \notin DOMAIN rt

(* router = defaultdict(lambda: defaultdict(dict)): d[k] on a missing key   *)
(* stores an empty table under k and returns it; `k in d` stores nothing.  *)
EmptyDict == <<>>

(* The value d[k] returns. *)
Item(d, k) == IF k \in DOMAIN d THEN d[k] ELSE EmptyDict

(* d after d[k] was evaluated. *)
AfterItem(d, k) ==
    IF k \in DOMAIN d THEN d
    ELSE [x \in DOMAIN d \cup {k} |-> IF x = k THEN EmptyDict ELSE d[x]]

(* re.fullmatch(pattern, path) for the patterns main() registers. *)
Matches(pattern, path) ==
    CASE pattern = ".*" -> TRUE
      [] pattern = "/?" -> path.seg = "" /\ path.sub = <<>>
      [] pattern = "/message/?" -> path.seg = "message" /\ path.sub = <<>>
      [] pattern = "/message/(?P<id>\\d+)/?" ->
             path.seg = "message" /\ IsDigits(path.sub)
      [] OTHER -> FALSE

(* The for/else over request_paths.items(): the position of the first      *)
(* matching route, 0 when none matches.                                    *)
FirstMatch(routes, path) ==
    LET hits == {i \in 1..Len(routes) : Matches(routes[i].pattern, path)}
    IN IF hits = {} THEN 0 ELSE CHOOSE i \in hits : \A j \in hits : i <= j

(* What a handler raises before it reaches the store: body.get on a body   *)
(* that is None or not an object (AttributeError), int() on a start that   *)
(* is not an integer (ValueError).                                         *)
HandlerNeverRaises(handler, r) == FALSE
HandlerRaises(handler, r) ==
    CASE handler \in {"create", "put", "patch"} -> r.body.kind # "object"
      [] handler = "list" -> r.query.hasStart /\ ~ParseInt(r.query.start).ok
      [] OTHER -> FALSE

NoBodyOut == [kind |-> "none", msg |-> NoMsg, page |-> NoPage]
ErrorBody == [kind |-> "error", msg |-> NoMsg, page |-> NoPage]
StatusBody == [kind |-> "status", msg |-> NoMsg, page |-> NoPage]
MessageBody(m) == [kind |-> "message", msg |-> m, page |-> NoPage]
PageBody(p) == [kind |-> "page", msg |-> NoMsg, page |-> p]

(* _respond(status, version, body, headers): the content-type's version    *)
(* (None when it has none), and the names of the extra headers.            *)
Respond(status, version, body, headers) ==
    [status |-> status, ctver |-> version, body |-> body, headers |-> headers]

NoResponse == Respond(0, None, NoBodyOut, {})

(* Lines 201-206: the deprecation headers are merged and the handler's     *)
(* result is sent.                                                         *)
DeprecationHeaders(dep, version) ==
    IF version \in DOMAIN dep THEN {"Deprecation", "Sunset"} ELSE {}

FinishRaises(dep, version, status, body) ==
    Respond(500, None, ErrorBody, {})
Finish(dep, version, status, body) ==
    Respond(status, version, body, DeprecationHeaders(dep, version))

(* handle_one_request from the request line to the call of the handler.    *)
(* The result is either the response sent (kind "respond") or the handler  *)
(* to run on the store (kind "handler") with the version and the id.       *)
Responded(r) == [kind |-> "respond", resp |-> r, handler |-> "", version |-> None]
Handler(h, v) ==
    [kind |-> "handler", resp |-> NoResponse, handler |-> h, version |-> v]

Dispatch(rt, dep, r) ==
    IF r.line = "toolong" THEN Responded(Respond(414, None, ErrorBody, {}))
    ELSE IF r.line = "unparsable" THEN Responded(Respond(400, None, ErrorBody, {}))
    ELSE IF r.body.kind \in {"malformed", "null"}
    THEN Responded(Respond(400, None, ErrorBody, {}))
    ELSE LET version == ExtractVersion(r.accept) IN
    IF VersionRejected(rt, version)
    THEN Responded(Respond(406, None, ErrorBody, {}))
    ELSE IF r.method \notin KnownMethods
    THEN Responded(Respond(500, None, ErrorBody, {}))
    ELSE IF r.method \notin DOMAIN Item(rt, version)
    THEN Responded(Respond(405, None, ErrorBody, {}))
    ELSE LET routes == Item(Item(rt, version), r.method)
             i == FirstMatch(routes, r.path) IN
    IF i = 0 THEN Responded(Respond(404, version, ErrorBody, {}))
    ELSE LET handler == routes[i].handler IN
    IF HandlerRaises(handler, r)
    THEN Responded(Respond(500, None, ErrorBody, {}))
    ELSE IF handler = "gone"
    THEN Responded(Finish(dep, version, 410, NoBodyOut))
    ELSE IF handler = "status"
    THEN Responded(Finish(dep, version, 200, StatusBody))
    ELSE Handler(handler, version)

(* The version table after handle_one_request ran on r: line 173 tests     *)
(* membership, line 178 raises before any lookup, lines 179 and 189        *)
(* subscript the table.                                                    *)
RouterAfter(rt, r) ==
    IF r.line # "ok" \/ r.body.kind \in {"malformed", "null"} THEN rt
    ELSE LET version == ExtractVersion(r.accept) IN
    IF VersionRejected(rt, version) THEN rt
    ELSE IF r.method \notin KnownMethods THEN rt
    ELSE LET rt1 == AfterItem(rt, version) IN
    IF r.method \notin DOMAIN rt1[version] THEN rt1
    ELSE [rt1 EXCEPT ![version] = AfterItem(rt1[version], r.method)]

-----------------------------------------------------------------------------
(* The state machine. *)

NoLoc == [version |-> None, id |-> None, ref |-> 0, status |-> 0,
          msg |-> NoMsg, old |-> NoMsg, snap |-> <<>>]

NoWalk == [phase |-> "off", cursor |-> 0, first |-> 0, delivered |-> <<>>,
           pages |-> 0]

(* The state after main() has built the tables and the store, before the   *)
(* first connection.                                                       *)
InitTables ==
    /\ router = RouterTable
    /\ deprecation = DeprecationTable

InitWorkers ==
    /\ pc = [w \in Workers |-> "idle"]
    /\ req = [w \in Workers |-> NoRequest]
    /\ loc = [w \in Workers |-> NoLoc]
    /\ resp = [w \in Workers |-> NoResponse]
    /\ lock = 0

InitStore ==
    /\ heap = <<>>
    /\ data = <<>>
    /\ next_id = 0
    /\ issued = <<>>
    /\ deleted = {}

Init ==
    /\ InitTables
    /\ InitWorkers
    /\ InitStore
    /\ clock = 0
    /\ walk = NoWalk

(* The position a handler starts at once the dispatcher calls it. *)
Entry(handler) ==
    CASE handler = "create" -> "create_lock"
      [] handler = "get" -> "get_lookup"
      [] handler = "list" -> "list_sort"
      [] handler = "put" -> "put_lock"
      [] handler = "patch" -> "patch_lock"
      [] handler = "delete" -> "delete_lock"

(* The creates that entered Store.create and have not taken an id yet. *)
PendingCreates == Cardinality({w \in Workers : pc[w] = "create_lock"})

(* A worker's connection delivers request r: handle_one_request runs up to *)
(* the response or to the handler's first access to the store.             *)
Serve(w, r) ==
    /\ pc[w] = "idle"
    /\ LET o == Dispatch(router, deprecation, r) IN
       /\ (o.kind = "handler" /\ o.handler = "create")
              => Len(issued) + PendingCreates < MaxCreate
       /\ router' = RouterAfter(router, r)
       /\ req' = [req EXCEPT ![w] = r]
       /\ IF o.kind = "respond"
          THEN /\ pc' = [pc EXCEPT ![w] = "done"]
               /\ resp' = [resp EXCEPT ![w] = o.resp]
               /\ loc' = [loc EXCEPT ![w] = NoLoc]
          ELSE /\ pc' = [pc EXCEPT ![w] = Entry(o.handler)]
               /\ resp' = [resp EXCEPT ![w] = NoResponse]
               /\ loc' = [loc EXCEPT ![w] =
                            [NoLoc EXCEPT !.version = o.version,
                                          !.id = IF o.handler \in {"create", "list"}
                                                 THEN None
                                                 ELSE ParseInt(r.path.sub).val]]
    /\ UNCHANGED <<heap, data, next_id, lock, clock, deprecation,
                   issued, deleted>>

(* _respond ends with close_connection = True: the connection is closed    *)
(* and its thread ends; the worker is free for the next connection.        *)
CloseConnection(w) ==
    /\ pc[w] = "done"
    /\ pc' = [pc EXCEPT ![w] = "idle"]
    /\ req' = [req EXCEPT ![w] = NoRequest]
    /\ resp' = [resp EXCEPT ![w] = NoResponse]
    /\ UNCHANGED <<heap, data, next_id, lock, clock, router, deprecation,
                   loc, issued, deleted>>

Close(w) == CloseConnection(w) /\ UNCHANGED walk

(* with self._lock: entered. *)
AfterLock(p) ==
    CASE p = "create_lock" -> "create_id"
      [] p = "put_lock" -> "put_get"
      [] p = "patch_lock" -> "patch_get"
      [] p = "delete_lock" -> "delete_pop"

(* The critical section entered without waiting for the lock. *)
AcquireNoWait(w) ==
    /\ pc[w] \in {"create_lock", "put_lock", "patch_lock", "delete_lock"}
    /\ lock' = w
    /\ pc' = [pc EXCEPT ![w] = AfterLock(pc[w])]
    /\ UNCHANGED <<heap, data, next_id, clock, router, deprecation,
                   req, loc, resp, issued, deleted, walk>>

Acquire(w) ==
    /\ pc[w] \in {"create_lock", "put_lock", "patch_lock", "delete_lock"}
    /\ lock = 0
    /\ lock' = w
    /\ pc' = [pc EXCEPT ![w] = AfterLock(pc[w])]
    /\ UNCHANGED <<heap, data, next_id, clock, router, deprecation,
                   req, loc, resp, issued, deleted, walk>>

(* Store.create: id = self._next_id *)
CreateId(w) ==
    /\ pc[w] = "create_id"
    /\ loc' = [loc EXCEPT ![w].id = next_id]
    /\ issued' = Append(issued, next_id)
    /\ pc' = [pc EXCEPT ![w] = "create_incr"]
    /\ UNCHANGED <<heap, data, next_id, lock, clock, router, deprecation,
                   req, resp, deleted, walk>>

(* Store.create: self._next_id += 1 *)
CreateIncr(w) ==
    /\ pc[w] = "create_incr"
    /\ next_id' = next_id + 1
    /\ pc' = [pc EXCEPT ![w] = "create_insert"]
    /\ UNCHANGED <<heap, data, lock, clock, router, deprecation,
                   req, loc, resp, issued, deleted, walk>>

(* self._data[id] = message on dict d, ref the new object's reference. *)
DictSet(d, id, ref) ==
    [k \in DOMAIN d \cup {id} |-> IF k = id THEN ref ELSE d[k]]

(* self._data.pop(id, None) on dict d. *)
DictPopKeeps(d, id) == d
DictPop(d, id) == [k \in DOMAIN d \ {id} |-> d[k]]

(* Store.create: the message is constructed and inserted, the lock is      *)
(* released by the return.                                                 *)
CreateInsert(w) ==
    /\ pc[w] = "create_insert"
    /\ heap' = Append(heap, MessageCreate(loc[w].id, req[w].body.author,
                                          req[w].body.content, clock))
    /\ data' = DictSet(data, loc[w].id, Len(heap) + 1)
    /\ lock' = 0
    /\ loc' = [loc EXCEPT ![w].ref = Len(heap) + 1, ![w].status = 201]
    /\ pc' = [pc EXCEPT ![w] = "dict_author"]
    /\ UNCHANGED <<next_id, clock, router, deprecation, req, resp,
                   issued, deleted, walk>>

(* MessageHandlers.get: store.get(id), without the lock. *)
GetLookup(w) ==
    /\ pc[w] = "get_lookup"
    /\ IF loc[w].id \in DOMAIN data
       THEN /\ loc' = [loc EXCEPT ![w].ref = data[loc[w].id], ![w].status = 200]
            /\ pc' = [pc EXCEPT ![w] = "dict_author"]
            /\ resp' = resp
       ELSE /\ resp' = [resp EXCEPT ![w] =
                          Finish(deprecation, loc[w].version, 404, ErrorBody)]
            /\ pc' = [pc EXCEPT ![w] = "done"]
            /\ loc' = [loc EXCEPT ![w] = NoLoc]
    /\ UNCHANGED <<heap, data, next_id, lock, clock, router, deprecation,
                   req, issued, deleted, walk>>

(* Message.to_dict: asdict reads the fields one after the other, without   *)
(* the lock: id and author, *)
DictAuthor(w) ==
    /\ pc[w] = "dict_author"
    /\ loc' = [loc EXCEPT ![w].msg.id = heap[loc[w].ref].id,
                          ![w].msg.author = heap[loc[w].ref].author]
    /\ pc' = [pc EXCEPT ![w] = "dict_content"]
    /\ UNCHANGED <<heap, data, next_id, lock, clock, router, deprecation,
                   req, resp, issued, deleted, walk>>

(* content and created, *)
DictContent(w) ==
    /\ pc[w] = "dict_content"
    /\ loc' = [loc EXCEPT ![w].msg.content = heap[loc[w].ref].content,
                          ![w].msg.created = heap[loc[w].ref].created]
    /\ pc' = [pc EXCEPT ![w] = "dict_updated"]
    /\ UNCHANGED <<heap, data, next_id, lock, clock, router, deprecation,
                   req, resp, issued, deleted, walk>>

(* updated; the handler returns and the response is sent. *)
DictUpdated(w) ==
    /\ pc[w] = "dict_updated"
    /\ LET m == [loc[w].msg EXCEPT !.updated = heap[loc[w].ref].updated] IN
       resp' = [resp EXCEPT ![w] =
                  Finish(deprecation, loc[w].version, loc[w].status,
                         MessageBody(m))]
    /\ loc' = [loc EXCEPT ![w] = NoLoc]
    /\ pc' = [pc EXCEPT ![w] = "done"]
    /\ UNCHANGED <<heap, data, next_id, lock, clock, router, deprecation,
                   req, issued, deleted, walk>>

(* int(query["start"][0]) if "start" in query else 0 *)
StartOf(query) == IF query.hasStart THEN ParseInt(query.start).val ELSE 0

(* Store.list: data = sorted(self._data.values(), ...), the snapshot,      *)
(* taken without the lock.                                                 *)
ListSnapshot(w) ==
    /\ pc[w] = "list_sort"
    /\ loc' = [loc EXCEPT ![w].snap = SortRefs(heap, Values(data))]
    /\ pc' = [pc EXCEPT ![w] = "list_page"]
    /\ UNCHANGED <<heap, data, next_id, lock, clock, router, deprecation,
                   req, resp, issued, deleted, walk>>

(* The rest of Store.list and MessageHandlers.list: the page is built from *)
(* the snapshot and sent.                                                  *)
ListRun(w) ==
    /\ pc[w] = "list_page"
    /\ resp' = [resp EXCEPT ![w] =
                  Finish(deprecation, loc[w].version, 200,
                         PageBody(ListPage(heap, loc[w].snap,
                                           StartOf(req[w].query))))]
    /\ pc' = [pc EXCEPT ![w] = "done"]
    /\ loc' = [loc EXCEPT ![w] = NoLoc]
    /\ UNCHANGED <<heap, data, next_id, lock, clock, router, deprecation,
                   req, issued, deleted, walk>>

(* Store.put / Store.patch: message = self._data.get(id); None is returned  *)
(* (and the lock released) when the id is absent.                          *)
UpdateGet(w, here, there) ==
    /\ pc[w] = here
    /\ IF loc[w].id \in DOMAIN data
       THEN /\ loc' = [loc EXCEPT ![w].ref = data[loc[w].id],
                                  ![w].old = heap[data[loc[w].id]]]
            /\ pc' = [pc EXCEPT ![w] = there]
            /\ UNCHANGED <<resp, lock>>
       ELSE /\ resp' = [resp EXCEPT ![w] =
                          Finish(deprecation, loc[w].version, 404, ErrorBody)]
            /\ pc' = [pc EXCEPT ![w] = "done"]
            /\ lock' = 0
            /\ loc' = [loc EXCEPT ![w] = NoLoc]
    /\ UNCHANGED <<heap, data, next_id, clock, router, deprecation,
                   req, issued, deleted, walk>>

PutGet(w) == UpdateGet(w, "put_get", "put_author")

(* One assignment to a field of the message, under the lock. *)
Assign(w, here, there, m) ==
    /\ pc[w] = here
    /\ heap' = [heap EXCEPT ![loc[w].ref] = m]
    /\ pc' = [pc EXCEPT ![w] = there]
    /\ UNCHANGED <<data, next_id, lock, clock, router, deprecation,
                   req, loc, resp, issued, deleted, walk>>

(* The last assignment, message.updated = Message.now_ns(), and the        *)
(* return, which releases the lock.                                        *)
AssignUpdated(w, here) ==
    /\ pc[w] = here
    /\ heap' = [heap EXCEPT ![loc[w].ref].updated = clock]
    /\ lock' = 0
    /\ loc' = [loc EXCEPT ![w].status = 200]
    /\ pc' = [pc EXCEPT ![w] = "dict_author"]
    /\ UNCHANGED <<data, next_id, clock, router, deprecation,
                   req, resp, issued, deleted, walk>>

(* Store.put: message.author = author *)
PutAuthor(w) ==
    Assign(w, "put_author", "put_content",
           [heap[loc[w].ref] EXCEPT !.author = req[w].body.author])

(* Store.put: message.content = content *)
PutContent(w) ==
    Assign(w, "put_content", "put_updated",
           [heap[loc[w].ref] EXCEPT !.content = req[w].body.content])

PutUpdated(w) == AssignUpdated(w, "put_updated")

PatchGet(w) == UpdateGet(w, "patch_get", "patch_author")

(* Store.patch: if author is not None: message.author = author *)
PatchedAuthor(m, author) ==
    IF author # NoneStr THEN [m EXCEPT !.author = author] ELSE m

(* Store.patch: if content is not None: message.content = content *)
PatchedContent(m, content) ==
    IF content # NoneStr THEN [m EXCEPT !.content = content] ELSE m

PatchAuthor(w) ==
    Assign(w, "patch_author", "patch_content",
           PatchedAuthor(heap[loc[w].ref], req[w].body.author))

PatchContent(w) ==
    Assign(w, "patch_content", "patch_updated",
           PatchedContent(heap[loc[w].ref], req[w].body.content))

PatchUpdated(w) == AssignUpdated(w, "patch_updated")

(* Store.delete under the lock, and MessageHandlers.delete's response:     *)
(* (HTTPStatus.OK,) when a record was removed, else 404.                   *)
DeletePop(w) ==
    /\ pc[w] = "delete_pop"
    /\ IF loc[w].id \in DOMAIN data
       THEN /\ data' = DictPop(data, loc[w].id)
            /\ deleted' = deleted \cup {loc[w].id}
            /\ resp' = [resp EXCEPT ![w] =
                          Finish(deprecation, loc[w].version, 200, NoBodyOut)]
       ELSE /\ resp' = [resp EXCEPT ![w] =
                          Finish(deprecation, loc[w].version, 404, ErrorBody)]
            /\ UNCHANGED <<data, deleted>>
    /\ lock' = 0
    /\ pc' = [pc EXCEPT ![w] = "done"]
    /\ loc' = [loc EXCEPT ![w] = NoLoc]
    /\ UNCHANGED <<heap, next_id, clock, router, deprecation,
                   req, issued, walk>>

(* The system clock behind time.time_ns(): it advances between two reads   *)
(* or not (its resolution is finite),                                      *)
Tick ==
    /\ clock < MaxClock
    /\ clock' = clock + 1
    /\ UNCHANGED <<heap, data, next_id, lock, router, deprecation,
                   pc, req, loc, resp, issued, deleted, walk>>

(* and, being the wall clock, it can be set back.                          *)
SetBack ==
    /\ clock > 0
    /\ clock' \in 0..(clock - 1)
    /\ UNCHANGED <<heap, data, next_id, lock, router, deprecation,
                   pc, req, loc, resp, issued, deleted, walk>>

-----------------------------------------------------------------------------
(* The requests the specifications draw from. *)

V2 == AcceptVersion(2)

Get(path) == Request("ok", V2, "GET", path, NoQuery, NoBody)
Post(author, content) ==
    Request("ok", V2, "POST", CollectionPath, NoQuery, ObjectBody(author, content))
Put(id, author, content) ==
    Request("ok", V2, "PUT", ItemPath(id), NoQuery, ObjectBody(author, content))
Patch(id, author, content) ==
    Request("ok", V2, "PATCH", ItemPath(id), NoQuery, ObjectBody(author, content))
Delete(id) == Request("ok", V2, "DELETE", ItemPath(id), NoQuery, NoBody)

(* Well-formed requests of version 2 on the collection and on record 0.    *)
StoreRequests ==
    {Post("a", "x"), Get(ItemPath(0)), Put(0, "b", "y"),
     Patch(0, "b", NoneStr), Patch(0, NoneStr, "y"), Delete(0)}

ReceiveStore(w) ==
    \E r \in StoreRequests : Serve(w, r) /\ UNCHANGED walk

StoreStep(w) ==
    \/ Acquire(w)
    \/ CreateId(w) \/ CreateIncr(w) \/ CreateInsert(w)
    \/ GetLookup(w)
    \/ DictAuthor(w) \/ DictContent(w) \/ DictUpdated(w)
    \/ PutGet(w) \/ PutAuthor(w) \/ PutContent(w) \/ PutUpdated(w)
    \/ PatchGet(w) \/ PatchAuthor(w) \/ PatchContent(w) \/ PatchUpdated(w)
    \/ DeletePop(w)

(* Concurrent workers on the store. *)
NextStore ==
    \/ \E w \in Workers : ReceiveStore(w)
    \/ \E w \in Workers : StoreStep(w)
    \/ \E w \in Workers : Close(w)

SpecStore == Init /\ [][NextStore]_vars

-----------------------------------------------------------------------------
(* The dispatcher: one worker, requests of every shape. *)

Accepts ==
    {NoAccept, Accept(TRUE, FALSE, <<>>), Accept(TRUE, TRUE, <<Letter>>)}
    \cup {AcceptVersion(v) : v \in 0..3}

Methods == {"GET", "POST", "PUT", "PATCH", "DELETE", "HEAD", "BREW"}

Paths == {RootPath, CollectionPath, ItemPath(0), Path("message", <<Letter>>),
          Path("other", <<>>)}

Queries == {NoQuery, Query(TRUE, <<Letter>>)}

Bodies == {NoBody, Body("malformed", NoneStr, NoneStr),
           Body("null", NoneStr, NoneStr), Body("nonobject", NoneStr, NoneStr),
           ObjectBody("a", "x")}

DispatchRequests ==
    {Request("ok", a, m, p, q, b) :
        a \in Accepts, m \in Methods, p \in Paths, q \in Queries, b \in Bodies}
    \cup {Request(l, NoAccept, "GET", RootPath, NoQuery, NoBody) :
            l \in {"toolong", "unparsable"}}

ReceiveAny(w) ==
    \E r \in DispatchRequests : Serve(w, r) /\ UNCHANGED walk

Next ==
    \/ ReceiveAny(1)
    \/ StoreStep(1)
    \/ ListSnapshot(1)
    \/ ListRun(1)
    \/ Close(1)

Spec == Init /\ [][Next]_vars

-----------------------------------------------------------------------------
(* Timestamps: one worker creating and updating records while the clock    *)
(* moves.                                                                  *)

ClockRequests ==
    {Post("a", "x"), Put(0, "b", "y"), Patch(0, "b", NoneStr),
     Patch(0, NoneStr, "y"), Patch(0, NoneStr, NoneStr), Patch(1, "b", "y")}

ReceiveClock(w) ==
    \E r \in ClockRequests : Serve(w, r) /\ UNCHANGED walk

ClockStep(w) ==
    \/ Acquire(w)
    \/ CreateId(w) \/ CreateIncr(w) \/ CreateInsert(w)
    \/ DictAuthor(w) \/ DictContent(w) \/ DictUpdated(w)
    \/ PutGet(w) \/ PutAuthor(w) \/ PutContent(w) \/ PutUpdated(w)
    \/ PatchGet(w) \/ PatchAuthor(w) \/ PatchContent(w) \/ PatchUpdated(w)

NextClock ==
    \/ ReceiveClock(1)
    \/ ClockStep(1)
    \/ Close(1)
    \/ Tick
    \/ SetBack

SpecClock == Init /\ [][NextClock]_vars

-----------------------------------------------------------------------------
(* Pagination: a client requests a page and follows `next`, on a store     *)
(* nobody mutates.                                                         *)

WalkRequest(cursor) ==
    Request("ok", V2, "GET", CollectionPath, Query(TRUE, Str(cursor)), NoBody)

(* GET /message?start=<cursor> *)
WalkSend(w) ==
    /\ walk.phase = "send"
    /\ Serve(w, WalkRequest(walk.cursor))
    /\ walk' = [walk EXCEPT !.phase = "wait"]

(* The client reads the page and the connection is closed: it stops when   *)
(* next is null.                                                           *)
WalkCollect(w) ==
    /\ walk.phase = "wait"
    /\ CloseConnection(w)
    /\ LET page == resp[w].body.page IN
       walk' = [walk EXCEPT !.delivered = @ \o page.data,
                            !.pages = @ + 1,
                            !.phase = IF page.next = None THEN "done" ELSE "send",
                            !.cursor = IF page.next = None THEN @ ELSE page.next]

(* The store after n creates and the deletion of the ids outside S. *)
StoreIs(n, S) ==
    /\ heap = [i \in 1..n |-> MessageCreate(i - 1, "a", "x", 0)]
    /\ data = [k \in S |-> k + 1]
    /\ next_id = n
    /\ issued = [i \in 1..n |-> i - 1]
    /\ deleted = (0..(n - 1)) \ S

WalkFrom(c) ==
    walk = [phase |-> "send", cursor |-> c, first |-> c, delivered |-> <<>>,
            pages |-> 0]

(* Records 0..N-1, walked from start=0. *)
InitWalk ==
    /\ InitTables
    /\ InitWorkers
    /\ clock = 0
    /\ \E n \in 0..MaxWalkN : StoreIs(n, 0..(n - 1))
    /\ WalkFrom(0)

(* Any records among 0..MaxGapId, any cursor. *)
InitPage ==
    /\ InitTables
    /\ InitWorkers
    /\ clock = 0
    /\ \E S \in SUBSET (0..MaxGapId) : StoreIs(MaxGapId + 1, S)
    /\ \E c \in (0 - 1)..(MaxGapId + 1) : WalkFrom(c)

NextWalk ==
    \/ WalkSend(1)
    \/ ListSnapshot(1)
    \/ ListRun(1)
    \/ WalkCollect(1)

SpecWalk == InitWalk /\ [][NextWalk]_vars /\ WF_vars(NextWalk)

SpecPage == InitPage /\ [][NextWalk]_vars

-----------------------------------------------------------------------------
(* Pagination claims. *)

(* The ids of S in ascending order, by rank. *)
Ascending(S) ==
    [i \in 1..Cardinality(S) |->
        CHOOSE x \in S : Cardinality({y \in S : y < x}) = i - 1]

MinOf(S) == CHOOSE x \in S : \A y \in S : x <= y

(* C1: on a store holding exactly the records 0..N-1 that nobody mutates,  *)
(* the walk from start=0 along `next` terminates, and the pages' data      *)
(* concatenated are the records 0..N-1 in ascending order, each once.      *)
PaginationRoundTrip ==
    /\ <>(walk.phase = "done")
    /\ [](walk.phase = "done" =>
            /\ DOMAIN data = 0..(next_id - 1)
            /\ walk.delivered = [i \in 1..next_id |-> i - 1])

(* A walk of three pages has ended. *)
RoundTripWitness ==
    /\ walk.phase = "done"
    /\ walk.pages = 3
    /\ Len(walk.delivered) > 2 * PageLimit

(* The page a worker has just answered the walking client with. *)
Answered(w) == pc[w] = "done" /\ resp[w].body.kind = "page"

(* C7: the first element of the page is the record with the smallest id    *)
(* >= start when there is one; otherwise the answer is 200 with data = [], *)
(* next = null and previous = null.                                        *)
CursorLanding ==
    \A w \in Workers : Answered(w) =>
        LET page == resp[w].body.page
            geq == {i \in DOMAIN data : i >= walk.cursor}
        IN IF geq # {}
           THEN Len(page.data) > 0 /\ page.data[1] = MinOf(geq)
           ELSE /\ resp[w].status = 200
                /\ page.data = <<>>
                /\ page.next = None
                /\ page.previous = None

(* A cursor in a gap left by deletions landed on the next higher id. *)
LandingWitness ==
    \E w \in Workers :
        /\ Answered(w)
        /\ walk.cursor \in deleted
        /\ \E i \in DOMAIN data : i < walk.cursor
        /\ Len(resp[w].body.page.data) > 0
        /\ resp[w].body.page.data[1] > walk.cursor

(* C8: the page holds at most 10 records, consecutive in ascending id      *)
(* order from the landing record; next is non-null exactly when a record   *)
(* with a higher id than the last page element exists, and then it is the  *)
(* id of the first record not in the page.                                 *)
NextCursorCorrect ==
    \A w \in Workers : Answered(w) =>
        LET page == resp[w].body.page
            geq == {i \in DOMAIN data : i >= walk.cursor}
            n == Len(page.data)
            beyond == IF n = 0 THEN {}
                      ELSE {i \in DOMAIN data : i > page.data[n]}
        IN /\ n <= 10
           /\ n = IF Cardinality(geq) < 10 THEN Cardinality(geq) ELSE 10
           /\ page.data = SubSeq(Ascending(geq), 1, n)
           /\ (page.next # None) <=> (beyond # {})
           /\ page.next # None =>
                /\ page.next = MinOf(beyond)
                /\ \A i \in 1..n : page.data[i] # page.next

(* A full page with a next cursor was answered. *)
NextCursorWitness ==
    \E w \in Workers :
        /\ Answered(w)
        /\ Len(resp[w].body.page.data) = 10
        /\ resp[w].body.page.next # None

-----------------------------------------------------------------------------
(* Store claims. *)

(* C2: the first create returns id 0, every create returns an id greater   *)
(* than the id of every create that held the lock before it, no id is      *)
(* returned twice, and a deleted record's id is never issued again.        *)
IdMonotonicity ==
    /\ Len(issued) > 0 => issued[1] = 0
    /\ \A i, j \in 1..Len(issued) : i < j => issued[i] < issued[j]
    /\ \A d \in deleted :
         /\ Cardinality({i \in 1..Len(issued) : issued[i] = d}) = 1
         /\ d < next_id

(* A create took its id after record 0 was deleted, and got 1. *)
IdWitness ==
    \E w \in Workers :
        /\ pc[w] = "create_incr"
        /\ 0 \in deleted
        /\ loc[w].id = 1

(* The store accesses that decide a request on a record. *)
Access == {"get_lookup", "put_get", "patch_get", "delete_pop"}

PatchFrame(w) ==
    /\ (pc[w] \in {"patch_author", "patch_content", "patch_updated"}
            /\ pc'[w] # pc[w]) =>
         /\ data' = data
         /\ next_id' = next_id
         /\ Len(heap') = Len(heap)
         /\ \A r \in 1..Len(heap) : r # loc[w].ref => heap'[r] = heap[r]
    /\ (pc[w] = "patch_updated" /\ pc'[w] # pc[w]) =>
         LET old == loc[w].old
             new == heap'[loc[w].ref]
             b == req[w].body
         IN /\ new.author = IF b.author # NoneStr THEN b.author ELSE old.author
            /\ new.content = IF b.content # NoneStr THEN b.content ELSE old.content
            /\ new.id = old.id
            /\ new.created = old.created
    /\ (pc[w] = "patch_get" /\ pc'[w] = "done") =>
         /\ loc[w].id \notin DOMAIN data
         /\ resp'[w].status = 404
         /\ UNCHANGED storeVars

PartialPatch ==
    [][\A w \in Workers :
         /\ PatchFrame(w)
         /\ (pc[w] = "patch_updated" /\ pc'[w] # pc[w]) =>
              heap'[loc[w].ref].updated > loc[w].old.updated]_vars

-----------------------------------------------------------------------------
(* Dispatcher claims. *)

(* The request got as far as version negotiation. *)
ReachedNegotiation(r) ==
    r.line = "ok" /\ r.body.kind \notin {"malformed", "null"}

(* The Accept header names no version of the version table. *)
BadAccept(a) ==
    \/ ~a.present
    \/ ~a.param
    \/ ~IsDigits(a.value)
    \/ DigitsValue(a.value) \notin {0, 1, 2}

(* The version negotiated for r, for a request that negotiated one. *)
Negotiated(r) == ReachedNegotiation(r) /\ ~BadAccept(r.accept)
VersionOf(r) == DigitsValue(r.accept.value)

(* C3: every response to a request whose negotiated version is deprecated  *)
(* (0 or 1) carries the Deprecation and the Sunset header, whatever the    *)
(* outcome.                                                                *)
DeprecationPropagation ==
    \A w \in Workers :
        (pc[w] = "done" /\ Negotiated(req[w]) /\ VersionOf(req[w]) \in {0, 1})
            => {"Deprecation", "Sunset"} \subseteq resp[w].headers

MethodNotAllowed ==
    \A w \in Workers :
        (pc[w] = "done" /\ Negotiated(req[w])
            /\ req[w].method \notin {"GET", "POST", "PUT", "PATCH", "DELETE"})
            => resp[w].status = 405

(* C6: under version 0 every request, for every method and every path, is  *)
(* answered 410.                                                           *)
RetiredVersion ==
    \A w \in Workers :
        (pc[w] = "done" /\ Negotiated(req[w]) /\ VersionOf(req[w]) = 0)
            => resp[w].status = 410

-----------------------------------------------------------------------------
(* Failures: two workers, one of which may send requests whose processing  *)
(* raises.                                                                 *)

RaisingRequests ==
    {Request("ok", V2, "BREW", RootPath, NoQuery, NoBody),
     Request("ok", V2, "POST", CollectionPath, NoQuery, NoBody),
     Request("ok", V2, "PUT", ItemPath(0), NoQuery,
             Body("nonobject", NoneStr, NoneStr)),
     Request("ok", V2, "GET", CollectionPath, Query(TRUE, <<Letter>>), NoBody)}

ReceiveContain(w) ==
    \E r \in StoreRequests \cup RaisingRequests : Serve(w, r) /\ UNCHANGED walk

NextContain ==
    \/ \E w \in Workers : ReceiveContain(w)
    \/ \E w \in Workers : StoreStep(w)
    \/ \E w \in Workers : Close(w)

SpecContain == Init /\ [][NextContain]_vars

(* The requests of a negotiated version on which a step after negotiation  *)
(* raises: HTTPMethod(self.command) on a token that is no HTTP method      *)
(* (ValueError), body.get on a body that is None or no object              *)
(* (AttributeError), int() on a start that is no integer (ValueError).     *)
Raising(r) ==
    /\ Negotiated(r)
    /\ \/ r.method \notin KnownMethods
       \/ /\ VersionOf(r) \in {1, 2}
          /\ \/ r.method = "POST" /\ r.path = CollectionPath
                   /\ r.body.kind # "object"
             \/ r.method \in {"PUT", "PATCH"} /\ r.path.seg = "message"
                   /\ IsDigits(r.path.sub) /\ r.body.kind # "object"
             \/ r.method = "GET" /\ r.path = CollectionPath
                   /\ r.query.hasStart /\ ~ParseInt(r.query.start).ok

(* C11: a request whose processing raises is answered with one 500         *)
(* response, without a version and without extra headers, and the worker   *)
(* finishes: it holds no lock, has not touched the store, has not          *)
(* disturbed any other worker, and after the connection is closed it is    *)
(* free for the next request.                                              *)
FailureContainment ==
    [][\A w \in Workers :
         /\ (pc[w] = "idle" /\ pc'[w] # "idle" /\ Raising(req'[w])) =>
              /\ pc'[w] = "done"
              /\ resp'[w] = Respond(500, None, ErrorBody, {})
              /\ UNCHANGED <<storeVars, lock, router, deprecation>>
              /\ \A v \in Workers \ {w} :
                    /\ pc'[v] = pc[v]
                    /\ req'[v] = req[v]
                    /\ loc'[v] = loc[v]
                    /\ resp'[v] = resp[v]
         /\ (pc[w] = "done" /\ pc'[w] # "done") =>
              /\ pc'[w] = "idle"
              /\ req'[w] = NoRequest
              /\ loc'[w] = NoLoc
              /\ lock' = lock]_vars

(* A POST without a body was answered 500 while the other worker was       *)
(* inside Store.put, holding the lock.                                     *)
ContainmentWitness ==
    \E w, v \in Workers :
        /\ w # v
        /\ pc[w] = "done"
        /\ req[w].method = "POST"
        /\ req[w].body.kind = "none"
        /\ resp[w].status = 500
        /\ pc[v] = "put_content"
        /\ lock = v

-----------------------------------------------------------------------------
(* Concurrency claims. *)

LockPoints == {"create_lock", "put_lock", "patch_lock", "delete_lock"}

(* The positions inside a critical section of Store. *)
Critical ==
    {"create_id", "create_incr", "create_insert", "put_get", "put_author",
     "put_content", "put_updated", "patch_get", "patch_author",
     "patch_content", "patch_updated", "delete_pop"}

(* C12: the store is written only by the worker holding the lock, the lock *)
(* is taken only when free and held up to the call's return, and at the    *)
(* return the store is the store found at entry with the whole call        *)
(* applied: the id taken is the counter's value, the record put or patched *)
(* is the record read at entry with all of the call's fields set, every    *)
(* other record is as it was.  The calls therefore take effect one at a    *)
(* time, in the order they acquired the lock.                              *)
AtomicMutations ==
    [][\A w \in Workers :
         /\ (pc'[w] # pc[w] /\ storeVars' # storeVars) => lock = w
         /\ (pc[w] \in LockPoints /\ pc'[w] # pc[w]) => lock = 0 /\ lock' = w
         /\ pc[w] \in Critical => lock = w
         /\ (pc[w] \in Critical /\ pc'[w] \in Critical) => lock' = w
         /\ (pc[w] \in Critical /\ pc'[w] \notin Critical) => lock' = 0
         /\ (pc'[w] # pc[w] /\ pc[w] \notin Critical \cup LockPoints) =>
              lock' = lock
         /\ (pc[w] = "create_insert" /\ pc'[w] # pc[w]) =>
              /\ loc[w].id = next_id - 1
              /\ loc[w].id \notin DOMAIN data
              /\ heap' = Append(heap, MessageCreate(next_id - 1, req[w].body.author,
                                                    req[w].body.content, clock))
              /\ data' = DictSet(data, next_id - 1, Len(heap'))
              /\ next_id' = next_id
         /\ (pc[w] = "put_updated" /\ pc'[w] # pc[w]) =>
              /\ heap' = [heap EXCEPT ![loc[w].ref] =
                            [loc[w].old EXCEPT !.author = req[w].body.author,
                                               !.content = req[w].body.content,
                                               !.updated = clock]]
              /\ UNCHANGED <<data, next_id>>
         /\ (pc[w] = "patch_updated" /\ pc'[w] # pc[w]) =>
              /\ heap' = [heap EXCEPT ![loc[w].ref] =
                            [PatchedContent(PatchedAuthor(loc[w].old,
                                                          req[w].body.author),
                                            req[w].body.content)
                                EXCEPT !.updated = clock]]
              /\ UNCHANGED <<data, next_id>>
         /\ (pc[w] \in {"put_author", "put_content", "patch_author", "patch_content"}
                /\ pc'[w] # pc[w]) =>
              /\ \A r \in 1..Len(heap) : r # loc[w].ref => heap'[r] = heap[r]
              /\ Len(heap') = Len(heap)
              /\ UNCHANGED <<data, next_id>>
         /\ (pc[w] \in {"put_get", "patch_get"} /\ pc'[w] # pc[w]) =>
              /\ UNCHANGED storeVars
              /\ pc'[w] # "done" => loc'[w].old = heap[data[loc[w].id]]
         /\ (pc[w] = "delete_pop" /\ pc'[w] # pc[w]) =>
              /\ data' = [k \in DOMAIN data \ {loc[w].id} |-> data[k]]
              /\ UNCHANGED <<heap, next_id>>]_vars

(* Two PATCHes of record 0 in flight together, one of the author and one   *)
(* of the content, have both left their critical sections and both fields  *)
(* are set.                                                                *)
AtomicWitness ==
    \E w, v \in Workers :
        /\ req[w] = Patch(0, "b", NoneStr)
        /\ req[v] = Patch(0, NoneStr, "y")
        /\ pc[w] = "dict_author"
        /\ pc[v] = "dict_author"
        /\ lock = 0
        /\ 0 \in DOMAIN data
        /\ heap[data[0]].author = "b"
        /\ heap[data[0]].content = "y"

-----------------------------------------------------------------------------
(* Timestamp claims. *)

(* C13: every stored record has updated >= created, and no step changes    *)
(* the created field of a record.                                          *)
TimestampInvariant ==
    /\ [](\A k \in DOMAIN data :
            heap[data[k]].updated >= heap[data[k]].created)
    /\ [][\A r \in 1..Len(heap) : heap'[r].created = heap[r].created]_vars

-----------------------------------------------------------------------------
(* Table claims. *)

(* C14: in every reachable state the version table and the deprecation     *)
(* table are the tables main() built: the known versions are 0, 1 and 2,   *)
(* the deprecated versions 0 and 1, and no entry was added, removed or     *)
(* changed.                                                                *)
ReadOnlyTables ==
    /\ router = RouterTable
    /\ deprecation = DeprecationTable
    /\ DOMAIN router = {0, 1, 2}
    /\ DOMAIN deprecation = {0, 1}
    /\ \A v \in DOMAIN router :
         DOMAIN router[v] = {"GET", "POST", "PUT", "PATCH", "DELETE"}

(* A request on an unmatched path, which went through every lookup in the *)
(* version table (lines 173, 179 and 189), has been answered 404.         *)
ReadOnlyWitness ==
    /\ pc[1] = "done"
    /\ req[1].accept = AcceptVersion(2)
    /\ req[1].method = "GET"
    /\ req[1].path = Path("other", <<>>)
    /\ resp[1].status = 404

-----------------------------------------------------------------------------
(* Store.list called directly, with any positive limit. *)

MaxListN == 13       \* the stores hold ids 0..N-1 for N <= MaxListN
MaxListLimit == 12   \* limit ranges over 1..MaxListLimit

NoResult == [before |-> <<>>, current |-> None, after |-> <<>>]

(* A caller about to evaluate store.list(start, limit). *)
ListCaller(start, limit) ==
    [phase |-> "call", start |-> start, limit |-> limit, result |-> NoResult]

InitList ==
    /\ InitTables
    /\ InitWorkers
    /\ clock = 0
    /\ \E n \in 0..MaxListN : StoreIs(n, 0..(n - 1))
    /\ \E start \in (0 - 1)..MaxListN, limit \in 1..MaxListLimit :
          walk = ListCaller(start, limit)

(* store.list(start, limit) returns. *)
StoreListCall ==
    /\ walk.phase = "call"
    /\ walk' = [walk EXCEPT !.phase = "returned",
                            !.result = StoreList(heap, SortRefs(heap, Values(data)),
                                                 walk.start, walk.limit)]
    /\ UNCHANGED <<heap, data, next_id, lock, clock, router, deprecation,
                   pc, req, loc, resp, issued, deleted>>

NextList == StoreListCall

SpecList == InitList /\ [][NextList]_vars

(* C15: when the cursor lands on a record, `after` is exactly the          *)
(* min(limit, number of records following the landing record) records      *)
(* immediately following it, for every positive limit.                     *)
WindowWidth ==
    (walk.phase = "returned" /\ walk.result.current # None) =>
        LET ids == Ascending(DOMAIN data)
            landing == heap[walk.result.current].id
            pos == CHOOSE i \in 1..Len(ids) : ids[i] = landing
            following == Len(ids) - pos
        IN IdsOf(heap, walk.result.after) =
               SubSeq(ids, pos + 1, pos + Min2(walk.limit, following))

-----------------------------------------------------------------------------
(* Pagination backwards: a client requests a page and then the page at its *)
(* `previous`, on a store nobody mutates.                                  *)

MaxBackId == 13      \* the stores are subsets of 0..MaxBackId
MaxBackGaps == 2     \* with at most MaxBackGaps ids missing

(* The client reads the page and the connection is closed: after the first *)
(* page it asks for the page at `previous`, if there is one.               *)
BackCollect(w) ==
    /\ walk.phase = "wait"
    /\ CloseConnection(w)
    /\ LET page == resp[w].body.page
           again == walk.pages = 0 /\ page.previous # None
       IN walk' = [walk EXCEPT !.delivered = IF walk.pages = 0 THEN page.data ELSE @,
                               !.pages = @ + 1,
                               !.phase = IF again THEN "send" ELSE "done",
                               !.cursor = IF again THEN page.previous ELSE @]

InitBack ==
    /\ InitTables
    /\ InitWorkers
    /\ clock = 0
    /\ \E S \in SUBSET (0..MaxBackId) :
          /\ Cardinality(S) >= MaxBackId + 1 - MaxBackGaps
          /\ StoreIs(MaxBackId + 1, S)
    /\ \E c \in (0 - 1)..(MaxBackId + 1) : WalkFrom(c)

NextBack ==
    \/ WalkSend(1)
    \/ ListSnapshot(1)
    \/ ListRun(1)
    \/ BackCollect(1)

SpecBack == InitBack /\ [][NextBack]_vars

(* The 0-based position of id in the ascending snapshot of the store. *)
IndexOf(id) == Cardinality({k \in DOMAIN data : k < id})

(* C16: on a non-empty page whose landing record is at position index of   *)
(* the ascending snapshot, previous is null when index = 0 and otherwise   *)
(* the id of the record at position max(0, index - 10); and when           *)
(* index >= 10 the page requested at that previous has next equal to the   *)
(* landing record's id.                                                    *)
PreviousCursor ==
    \A w \in Workers : Answered(w) =>
        LET page == resp[w].body.page
            ids == Ascending(DOMAIN data)
        IN /\ page.data # <<>> =>
                LET index == IndexOf(page.data[1])
                IN page.previous = IF index = 0 THEN None
                                   ELSE ids[Max2(0, index - 10) + 1]
           /\ (walk.pages = 1 /\ IndexOf(walk.delivered[1]) >= 10) =>
                page.next = walk.delivered[1]

(* The page at the previous cursor of a page landing at position 11 or     *)
(* beyond, in a store with a gap, was answered.                            *)
PreviousWitness ==
    \E w \in Workers :
        /\ Answered(w)
        /\ walk.pages = 1
        /\ IndexOf(walk.delivered[1]) > 10
        /\ deleted # {}
        /\ resp[w].body.page.next = walk.delivered[1]

-----------------------------------------------------------------------------
(* Content-type claims. *)

(* C17: a response to a request that negotiated a version carries that     *)
(* version in its content-type, whatever its status; a response to a       *)
(* request that negotiated none carries no version.                        *)
VersionedContentType ==
    \A w \in Workers : pc[w] = "done" =>
        resp[w].ctver = IF Negotiated(req[w]) THEN VersionOf(req[w]) ELSE None

-----------------------------------------------------------------------------
(* Readers and writers of one record: record 0 is created as (a, x), and   *)
(* every update is a PUT of (b, y) or of (a, x).                           *)

TornRequests ==
    {Post("a", "x"), Get(ItemPath(0)), Put(0, "b", "y"), Put(0, "a", "x")}

ReceiveTorn(w) ==
    \E r \in TornRequests : Serve(w, r) /\ UNCHANGED walk

TornStep(w) ==
    \/ Acquire(w)
    \/ CreateId(w) \/ CreateIncr(w) \/ CreateInsert(w)
    \/ GetLookup(w)
    \/ DictAuthor(w) \/ DictContent(w) \/ DictUpdated(w)
    \/ PutGet(w) \/ PutAuthor(w) \/ PutContent(w) \/ PutUpdated(w)

NextTorn ==
    \/ \E w \in Workers : ReceiveTorn(w)
    \/ \E w \in Workers : TornStep(w)
    \/ \E w \in Workers : Close(w)

SpecTorn == Init /\ [][NextTorn]_vars

(* The author and content a record holds at the instants when no writer is *)
(* inside a critical section: those of the create and of each whole PUT.   *)
QuiescentValues == {<<"a", "x">>, <<"b", "y">>}

(* C18: every record body returned in a response holds an author and a     *)
(* content the record held together at an instant when no writer was       *)
(* inside its critical section: never the author of one update with the    *)
(* content of another.                                                     *)
NoTornRecord ==
    \A w \in Workers :
        (pc[w] = "done" /\ resp[w].body.kind = "message") =>
            <<resp[w].body.msg.author, resp[w].body.msg.content>>
                \in QuiescentValues

-----------------------------------------------------------------------------
(* Error claims. *)

(* The positions a request is at after its first write to the store. *)
Written ==
    {"create_insert", "put_content", "put_updated", "patch_content",
     "patch_updated", "dict_author", "dict_content", "dict_updated"}

(* C19: a request answered with a status of 400 or above has not changed   *)
(* the store: the step that sends such a response leaves the records,      *)
(* their fields and the id counter as they are, and is never taken by a    *)
(* request that has written to the store, because a request that has       *)
(* written can only go on to a response below 400.                         *)
ErrorsDoNotMutate ==
    [][\A w \in Workers :
         /\ (pc'[w] = "done" /\ pc[w] # "done" /\ resp'[w].status >= 400) =>
              /\ UNCHANGED storeVars
              /\ pc[w] \notin Written
         /\ (pc'[w] # pc[w] /\ storeVars' # storeVars) =>
              \/ pc'[w] \in Written
              \/ pc'[w] = "done" /\ resp'[w].status < 400
         /\ (pc[w] \in Written /\ pc'[w] # pc[w]) =>
              \/ pc'[w] \in Written
              \/ pc'[w] = "done" /\ resp'[w].status < 400]_vars

(* A PUT with a body that is no object, on a record that exists, was       *)
(* answered 500.                                                           *)
ErrorWitness ==
    /\ pc[1] = "done"
    /\ req[1].method = "PUT"
    /\ req[1].path = ItemPath(0)
    /\ req[1].body.kind = "nonobject"
    /\ resp[1].status = 500
    /\ 0 \in DOMAIN data

-----------------------------------------------------------------------------
(* Pagination while the store is mutated: worker 1 serves a client walking *)
(* along `next` from start=0, worker 2 serves creates and deletes.         *)

MutWalkN == 21       \* the walk starts on a store holding ids 0..MutWalkN-1

(* The ids the other client deletes: the first record, the record the      *)
(* first page's next cursor names, the one after it, and the first record  *)
(* created during the walk.                                                *)
DeleteTargets == {0, 10, 11, MutWalkN}

MutRequests == {Post("a", "x")} \cup {Delete(k) : k \in DeleteTargets}

(* The store holds ids 0..MutWalkN-1; issued and deleted observe the       *)
(* creates and deletes made from here on.                                  *)
InitMutWalk ==
    /\ InitTables
    /\ InitWorkers
    /\ clock = 0
    /\ heap = [i \in 1..MutWalkN |-> MessageCreate(i - 1, "a", "x", 0)]
    /\ data = [k \in 0..(MutWalkN - 1) |-> k + 1]
    /\ next_id = MutWalkN
    /\ issued = <<>>
    /\ deleted = {}
    /\ WalkFrom(0)

ReceiveMut(w) ==
    \E r \in MutRequests : Serve(w, r) /\ UNCHANGED walk

MutStep(w) ==
    \/ Acquire(w)
    \/ CreateId(w) \/ CreateIncr(w) \/ CreateInsert(w)
    \/ DictAuthor(w) \/ DictContent(w) \/ DictUpdated(w)
    \/ DeletePop(w)

NextMutWalk ==
    \/ WalkSend(1)
    \/ ListSnapshot(1)
    \/ ListRun(1)
    \/ WalkCollect(1)
    \/ ReceiveMut(2)
    \/ MutStep(2)
    \/ Close(2)

SpecMutWalk == InitMutWalk /\ [][NextMutWalk]_vars

(* C20: while records are created and deleted around its page requests,    *)
(* the ids the walk has delivered are strictly ascending, and when the     *)
(* walk has ended every record that was there before it began and has not  *)
(* been deleted was delivered exactly once.                                *)
WalkUnderMutation ==
    /\ \A i, j \in 1..Len(walk.delivered) :
          i < j => walk.delivered[i] < walk.delivered[j]
    /\ walk.phase = "done" =>
          \A k \in (0..(MutWalkN - 1)) \ deleted :
              Cardinality({i \in 1..Len(walk.delivered) :
                              walk.delivered[i] = k}) = 1

(* The record the first page's next cursor named was deleted before the    *)
(* second page was taken, a record was created meanwhile, and the second   *)
(* page starts at the next higher id.                                      *)
MutationWitness ==
    /\ Answered(1)
    /\ walk.pages = 1
    /\ walk.cursor = 10
    /\ 10 \in deleted
    /\ Len(issued) > 0
    /\ resp[1].body.page.data[1] = 11

====
